---- MODULE Spec2Model ----
(***************************************************************************)
(* Model of the pgxschema migration engine: Migrator.Apply and the         *)
(* functions it calls (lock, unlock, createMigrationsTable, transaction,   *)
(* GetAppliedMigrations, SortMigrations, runMigration), run by several     *)
(* callers against one PostgreSQL database.                                *)
(*                                                                         *)
(* The database is modelled by what the statements issued by the code do:  *)
(* a session-scoped, re-entrant advisory lock, transactions whose writes   *)
(* become durable at commit, and statements that may fail.  A Connection   *)
(* is either a *pgx.Conn (one session) or a *pgxpool.Pool (every statement *)
(* outside a transaction runs on any idle session of the pool).            *)
(***************************************************************************)
EXTENDS Integers, Sequences, FiniteSets

\* ------------------------------------------------------------------ bounds
NumProcs == 2      \* concurrent callers of Apply (and sessions of the pool)
MaxCalls == 2      \* Apply calls made in sequence by one caller
MaxMigs  == 3      \* length of the slice passed to Apply
MaxClock == 1      \* readings of time.Now() range over 0..MaxClock
MaxIdent == 3      \* length of the identifiers handed to QuotedIdent

Procs    == 1..NumProcs
Sessions == 1..NumProcs

\* ------------------------------------------------------- migrations, IDs
\* IDs are byte strings; <<1>> is a prefix of <<1,3>>, and <<1,3>> is longer
\* than <<2>> but sorts before it (as "10" sorts before "9").
NoID == <<>>

MigrationValues ==
    { [ID |-> <<1>>,    Script |-> "s1"],
      [ID |-> <<1, 3>>, Script |-> "s2"],
      [ID |-> <<2>>,    Script |-> "s3"] }

\* The slices a caller may pass to Apply: up to MaxMigs migrations, in any
\* order, no migration twice.
Slices ==
    { s \in UNION { [1..n -> MigrationValues] : n \in 0..MaxMigs } :
        \A i, j \in 1..Len(s) : i # j => s[i] # s[j] }

\* Slices in which IDs repeat: an entry may come twice, and two entries have
\* the ID <<1>> with different scripts.
RepeatingValues ==
    { [ID |-> <<1>>, Script |-> "s1"],
      [ID |-> <<1>>, Script |-> "s4"],
      [ID |-> <<2>>, Script |-> "s3"] }

RepeatingSlices == UNION { [1..n -> RepeatingValues] : n \in 0..MaxMigs }

\* The arguments and configuration of one Apply call.
Inputs == [db : {"nil", "conn"}, logger : {"nil", "set"}, migrations : Slices]

\* The calls made when several callers run at once: one migration set, in
\* either order of the slice, or its first migration alone.
SharedInputs ==
    { i \in Inputs :
        /\ i.db = "conn"
        /\ i.logger = "nil"
        /\ i.migrations \in
             { <<[ID |-> <<1, 3>>, Script |-> "s2"]>>,
               <<[ID |-> <<2>>, Script |-> "s3"], [ID |-> <<1, 3>>, Script |-> "s2"]>>,
               <<[ID |-> <<1, 3>>, Script |-> "s2"], [ID |-> <<2>>, Script |-> "s3"]>> } }

\* Migration.MD5: the hex MD5 of the script, an opaque function of the script.
MD5(script) == <<"md5", script>>

\* Go's string comparison a < b: the first differing byte decides, and a
\* proper prefix is smaller.
RECURSIVE StrLess(_, _)
StrLess(a, b) ==
    IF b = <<>> THEN FALSE
    ELSE IF a = <<>> THEN TRUE
    ELSE IF Head(a) # Head(b) THEN Head(a) < Head(b)
    ELSE StrLess(Tail(a), Tail(b))

\* The less function handed to sort.Slice by SortMigrations.
LessByID(m1, m2) == StrLess(m1.ID, m2.ID)

Arrangements(s) ==
    { [i \in 1..Len(s) |-> s[f[i]]] :
        f \in { g \in [1..Len(s) -> 1..Len(s)] :
                  \A i, j \in 1..Len(s) : i # j => g[i] # g[j] } }

\* SortMigrations without the sort: the slice stays as it was.
SortMigrations_Unsorted(s) == {s}

\* SortMigrations: sort.Slice is not stable, so every arrangement of the
\* slice in which no element is followed by a smaller one is a possible result.
SortMigrations(s) ==
    { t \in Arrangements(s) :
        \A i, j \in 1..Len(t) : i < j => ~LessByID(t[j], t[i]) }

\* The loop without its test of the ledger map: every migration is kept.
Unapplied_KeepsAll(ms, appliedIDs) == ms

\* The loop keeping only the migrations whose ID sorts after every applied ID.
Unapplied_AfterHighest(ms, appliedIDs) ==
    SelectSeq(ms, LAMBDA m : \A a \in appliedIDs : StrLess(a, m.ID))

\* The loop adding each planned ID to the map: of entries with one ID only
\* the first is kept.
RECURSIVE Unapplied_OncePerID(_, _)
Unapplied_OncePerID(ms, appliedIDs) ==
    IF ms = <<>> THEN <<>>
    ELSE IF Head(ms).ID \in appliedIDs
         THEN Unapplied_OncePerID(Tail(ms), appliedIDs)
         ELSE <<Head(ms)>> \o Unapplied_OncePerID(Tail(ms), appliedIDs \cup {Head(ms).ID})

\* The loop of Apply that keeps the migrations whose ID is not a key of applied.
RECURSIVE Unapplied(_, _)
Unapplied(ms, appliedIDs) ==
    IF ms = <<>> THEN <<>>
    ELSE IF Head(ms).ID \in appliedIDs
         THEN Unapplied(Tail(ms), appliedIDs)
         ELSE <<Head(ms)>> \o Unapplied(Tail(ms), appliedIDs)

\* ------------------------------------------------------------------ errors
\* An error value: base names the error at the bottom of the chain ("nil" for
\* no error), mig is the ID named by the "Migration '%s' Failed" wrapper (NoID
\* when the error is not wrapped so), unlock is the message of an unlock error
\* appended by Apply's deferred function ("none" when nothing was appended),
\* rollback is the message of a rollback error carried along ("none" when
\* there is none).
Nil == [base |-> "nil", mig |-> NoID, unlock |-> "none", rollback |-> "none"]

DBError(step) == [base |-> step, mig |-> NoID, unlock |-> "none", rollback |-> "none"]

ErrNilDB == DBError("ErrNilDB")

\* runMigration returning nil for a failed script.
MigrationFailed_Swallowed(id, e) == Nil

\* runMigration returning the database's error as it is, the ID not named.
MigrationFailed_Unnamed(id, e) == e

\* fmt.Errorf("Migration '%s' Failed:\n%w", migration.ID, err)
MigrationFailed(id, e) == [e EXCEPT !.mig = id]

\* The deferred function dropping the error of unlock.
AfterUnlock_Dropped(e, u) == e

\* The deferred function returning unlock's error in place of the earlier one.
AfterUnlock_Replaced(e, u) == IF u = Nil THEN e ELSE u

\* The deferred function of Apply: what err becomes when unlock returned u.
AfterUnlock(e, u) ==
    IF u = Nil THEN e
    ELSE IF e = Nil THEN u
    ELSE [e EXCEPT !.unlock = u.base]

\* ------------------------------------------------- lock IDs, table names
\* Strings are sequences of bytes.  Unsigned machine words are sequences of
\* bits, least significant bit first, as long as the word is wide.
DefaultTableName ==   \* "schema_migrations"
    <<115, 99, 104, 101, 109, 97, 95, 109, 105, 103, 114, 97, 116, 105, 111, 110, 115>>

\* Table names a Migrator is configured with: the default, two names with the
\* same CRC-32 checksum ("kv60q", "w9j1e"), and two names whose checksums
\* differ in their two highest bits only ("27xb_", "ezwz1").
TableNames ==
    { DefaultTableName,
      <<107, 118, 54, 48, 113>>,
      <<119, 57, 106, 49, 101>>,
      <<50, 55, 120, 98, 95>>,
      <<101, 122, 119, 122, 49>> }

\* Schema names: blank (the connection's search_path) and "app".
SchemaNames == { <<>>, <<97, 112, 112>> }

\* The Migrator values of the callers: SchemaName and TableName.
Migrators == [SchemaName : SchemaNames, TableName : TableNames]

postgresAdvisoryLockSalt == 542384964

\* The w-bit word of a number below 2^31.
Word(n, w) ==
    SubSeq([i \in 1..w |-> IF i > 31 THEN 0 ELSE (n \div 2^(i - 1)) % 2], 1, w)

XOR(a, b) == SubSeq([i \in 1..Len(a) |-> (a[i] + b[i]) % 2], 1, Len(a))

\* The complement of a word.
Not(a) == SubSeq([i \in 1..Len(a) |-> 1 - a[i]], 1, Len(a))

ShiftRight(a) == Tail(a) \o <<0>>

ShiftLeft(a, k) == Word(0, k) \o SubSeq(a, 1, Len(a) - k)

\* The carry into bit i of a + b: some lower bit generates a carry and every
\* bit between passes it on.
Carry(a, b, i) ==
    \E j \in 1..(i - 1) :
        /\ a[j] + b[j] = 2
        /\ \A k \in (j + 1)..(i - 1) : a[k] + b[k] >= 1

\* a + b in words of Len(a) bits: the carry out of the highest bit is lost.
Add(a, b) ==
    SubSeq([i \in 1..Len(a) |->
               (a[i] + b[i] + (IF Carry(a, b, i) THEN 1 ELSE 0)) % 2], 1, Len(a))

\* a * b in words of Len(a) bits (modulo 2^Len(a)): acc is the sum of a
\* shifted to each set bit of b below bit i.
RECURSIVE MulFrom(_, _, _, _)
MulFrom(a, b, i, acc) ==
    IF i > Len(b) \/ acc = <<>> THEN acc
    ELSE MulFrom(a, b, i + 1,
                 IF b[i] = 1 THEN Add(acc, ShiftLeft(a, i - 1)) ELSE acc)

Mul(a, b) == MulFrom(a, b, 1, Word(0, Len(a)))

\* The reversed IEEE polynomial 0xedb88320.
IEEE == Word(33568, 16) \o Word(60856, 16)

\* One bit of the CRC-32 register update.
UpdateBit(crc) == IF crc[1] = 1 THEN XOR(ShiftRight(crc), IEEE) ELSE ShiftRight(crc)

RECURSIVE UpdateBits(_, _)
UpdateBits(crc, n) ==
    IF n = 0 \/ crc = <<>> THEN crc ELSE UpdateBits(UpdateBit(crc), n - 1)

\* The CRC-32 register after the bytes, each byte taking eight bit steps.
RECURSIVE Update(_, _)
Update(crc, bytes) ==
    IF bytes = <<>> \/ crc = <<>> THEN crc
    ELSE Update(UpdateBits(XOR(crc, Word(Head(bytes), 32)), 8), Tail(bytes))

\* crc32.ChecksumIEEE
ChecksumIEEE(bytes) == Not(Update(Not(Word(0, 32)), bytes))

IsZero(a) == \A i \in 1..Len(a) : a[i] = 0

\* Division of a word by ten, from the highest bit down: q holds the
\* quotient's bits above bit i and r is the remainder of the bits above bit i.
RECURSIVE DivTen(_, _, _, _)
DivTen(a, i, r, q) ==
    IF i = 0 \/ r > 9 THEN [quot |-> q, rem |-> r]
    ELSE DivTen(a, i - 1, (2 * r + a[i]) % 10, <<(2 * r + a[i]) \div 10>> \o q)

\* fmt.Sprint of an unsigned word: its decimal digits, the highest first.
RECURSIVE Sprint(_)
Sprint(a) ==
    LET d == DivTen(a, Len(a), 0, <<>>) IN
    IF IsZero(d.quot) THEN <<d.rem>> ELSE Append(Sprint(d.quot), d.rem)

\* A lock ID that is the same for every Migrator.
AdvisoryLockID_Fixed(m) == Sprint(Word(postgresAdvisoryLockSalt, 32))

\* A lock ID computed from the schema name and the table name.
AdvisoryLockID_WithSchema(m) ==
    Sprint(Mul(ChecksumIEEE(m.SchemaName \o m.TableName),
               Word(postgresAdvisoryLockSalt, 32)))

\* Migrator.AdvisoryLockID: the checksum of TableName times the salt, in
\* uint32 arithmetic, printed in decimal.
AdvisoryLockID(m) ==
    Sprint(Mul(ChecksumIEEE(m.TableName), Word(postgresAdvisoryLockSalt, 32)))

\* int64(x) of an unsigned 32-bit word: the same value in 64 bits.
Int64(a) == a \o Word(0, 64 - Len(a))

\* The product taken in uint32 and widened afterwards.
LockIdentifierForTable_Narrow(tableName) ==
    Int64(Mul(ChecksumIEEE(tableName), Word(postgresAdvisoryLockSalt, 32)))

\* LockIdentifierForTable: the checksum of the table name, converted to
\* int64, times the salt, in int64 arithmetic (a 64-bit word).
LockIdentifierForTable(tableName) ==
    Mul(Int64(ChecksumIEEE(tableName)), Int64(Word(postgresAdvisoryLockSalt, 32)))

\* NewMigrator() without options.
NewMigrator == [SchemaName |-> <<>>, TableName |-> DefaultTableName]

\* ------------------------------------------------------ identifier quoting
\* The characters identifiers are made of here: a letter, a dot, a space, a
\* double quote and a semicolon.
Letter    == 97
Dot       == 46
Space     == 32
Quote     == 34
Semicolon == 59

Chars == {Letter, Dot, Space, Quote, Semicolon}

\* The strings of up to n characters.
Idents(n) == UNION { [1..k -> Chars] : k \in 0..n }

\* unicode.IsSpace, on the characters below 128.
IsSpace(r) == r \in {9, 10, 11, 12, 13, Space}

\* The loop of QuotedIdent: what is written to the builder for one rune.
Escaped(r) ==
    IF IsSpace(r) THEN <<>>
    ELSE IF r = Quote THEN <<Quote, Quote>>
    ELSE IF r = Semicolon THEN <<>>
    ELSE <<r>>

RECURSIVE EscapedAll(_)
EscapedAll(ident) ==
    IF ident = <<>> THEN <<>> ELSE Escaped(Head(ident)) \o EscapedAll(Tail(ident))

QuotedIdent(ident) ==
    IF ident = <<>> THEN <<>>
    ELSE <<Quote>> \o EscapedAll(ident) \o <<Quote>>

QuotedTableName(schemaName, tableName) ==
    IF schemaName = <<>> THEN QuotedIdent(tableName)
    ELSE QuotedIdent(schemaName) \o <<Dot>> \o QuotedIdent(tableName)

\* ------------------------------------------------------------------- state
VARIABLES
    solo,         \* TRUE: one caller, calling in sequence; FALSE: NumProcs callers at once
    pooled,       \* TRUE: the callers share one pgxpool.Pool; FALSE: each has its own pgx.Conn
    tableExists,  \* the tracking table exists (committed)
    ledger,       \* committed rows of the tracking table
    effects,      \* committed effects of migration scripts
    lockHolder,   \* session holding the advisory lock, 0 when free
    lockCount,    \* how many times the holding session has taken the lock
    sessTx,       \* sessTx[s]: the caller whose open transaction runs on session s, 0 when idle
    clock,        \* the current reading of time.Now()
    pc,           \* where each caller is in Apply
    db,           \* the db argument of the call: "nil" or "conn"
    logger,       \* Migrator.Logger of the call: "nil" or "set"
    migrations,   \* the migrations argument of the call
    applied,      \* the keys of the map GetAppliedMigrations returned
    plan,         \* the plan of the call
    idx,          \* position in the plan
    startedAt,    \* runMigration's startedAt
    executionTime, \* runMigration's executionTime
    tx,           \* the session of the caller's open transaction, 0 when none
    pendRows,     \* rows inserted by the open transaction, not yet committed
    pendEffects,  \* script effects of the open transaction, not yet committed
    err,          \* Apply's named result err
    calls,        \* number of Apply calls the caller has started
    trace,        \* statements issued and log calls made by the current call
    migrator,     \* the caller's Migrator: SchemaName and TableName
    advisory,     \* advisory locks held, by lock ID and session, when the
                  \* callers' Migrators differ
    quoted,       \* the last result of QuotedIdent or QuotedTableName
    read,         \* the last result of GetAppliedMigrations called on its own
    waiting       \* waiting[p]: the session on which the caller's lock
                  \* statement waits for the advisory lock, 0 when it does not

vars == <<solo, pooled, tableExists, ledger, effects, lockHolder, lockCount, sessTx,
          clock, pc, db, logger, migrations, applied, plan, idx, startedAt,
          executionTime, tx,
          pendRows, pendEffects, err, calls, trace, migrator, advisory,
          quoted, read, waiting>>

dbVars   == <<tableExists, ledger, effects>>
lockVars == <<lockHolder, lockCount>>
callVars == <<solo, pooled, db, logger, migrations, calls>>   \* fixed during a call
planVars == <<applied, plan, idx>>
pendVars == <<pendRows, pendEffects>>
keyVars  == <<migrator, advisory, quoted, read, waiting>>

\* The sessions a caller's statements can run on.
ConnSessions(p) == IF pooled THEN Sessions ELSE {p}

IdleSessions(p) ==
    { s \in ConnSessions(p) : sessTx[s] = 0 /\ \A q \in Procs : waiting[q] # s }

\* A statement sent to the database or a call of Logger.Print: msg is the
\* text handed to Print, <<>> for a statement.
Ev(op, ok, id) == [op |-> op, ok |-> ok, id |-> id, msg |-> <<>>]

\* The call a row or effect was written by.
CallOf(p) == <<p, calls[p]>>

\* m.log: nothing with a nil Logger, else Logger.Print, which returns or panics.
LogOutcomes(p) == IF logger[p] = "nil" THEN {"none"} ELSE {"printed", "panic"}

\* The messages of lock(), unlock() and runMigration.
Locked == <<"Locked at">>

Unlocked == <<"Unlocked at">>

Applied(id, took) == <<"Migration applied in", id, took>>

\* m.log that never calls the Logger.
LogTrace_Silent(o, msg) == <<>>

LogTrace(o, msg) ==
    IF o = "none" THEN <<>>
    ELSE <<[Ev("log", o = "printed", NoID) EXCEPT !.msg = msg]>>

\* Who calls Apply, and with what.
Callers == IF solo THEN {1} ELSE Procs

CallInputs == IF solo THEN Inputs ELSE SharedInputs

\* A lone caller calls up to MaxCalls times; concurrent callers call once each.
CallLimit == IF solo THEN MaxCalls ELSE 1

\* No session in use, no call made yet.
NoCalls ==
    /\ lockHolder = 0
    /\ lockCount = 0
    /\ sessTx = [s \in Sessions |-> 0]
    /\ clock = 0
    /\ pc = [p \in Procs |-> "idle"]
    /\ db = [p \in Procs |-> "conn"]
    /\ logger = [p \in Procs |-> "nil"]
    /\ migrations = [p \in Procs |-> <<>>]
    /\ applied = [p \in Procs |-> {}]
    /\ plan = [p \in Procs |-> <<>>]
    /\ idx = [p \in Procs |-> 1]
    /\ startedAt = [p \in Procs |-> 0]
    /\ executionTime = [p \in Procs |-> 0]
    /\ tx = [p \in Procs |-> 0]
    /\ pendRows = [p \in Procs |-> <<>>]
    /\ pendEffects = [p \in Procs |-> <<>>]
    /\ err = [p \in Procs |-> Nil]
    /\ calls = [p \in Procs |-> 0]
    /\ trace = [p \in Procs |-> <<>>]
    /\ advisory = {}
    /\ quoted = [fn |-> "none", out |-> <<>>]
    /\ waiting = [p \in Procs |-> 0]
    /\ read = [called |-> FALSE, exists |-> FALSE, rows |-> 0, broken |-> FALSE,
               ids |-> <<>>, scans |-> <<>>, closes |-> FALSE,
               applied |-> {}, err |-> Nil]

\* An empty database, no session in use, no call made yet.
Fresh ==
    /\ tableExists = FALSE
    /\ ledger = <<>>
    /\ effects = <<>>
    /\ NoCalls

Init ==
    /\ solo \in BOOLEAN
    /\ pooled \in BOOLEAN
    /\ migrator = [p \in Procs |-> NewMigrator]
    /\ Fresh

\* A caller calls Apply(db, migrations), with arguments from inputs.
CallWith(p, inputs) ==
    /\ p \in Callers
    /\ pc[p] \in {"idle", "done"}
    /\ calls[p] < CallLimit
    /\ \E i \in inputs :
         /\ db' = [db EXCEPT ![p] = i.db]
         /\ logger' = [logger EXCEPT ![p] = i.logger]
         /\ migrations' = [migrations EXCEPT ![p] = i.migrations]
    /\ calls' = [calls EXCEPT ![p] = @ + 1]
    /\ pc' = [pc EXCEPT ![p] = "lock"]
    /\ err' = [err EXCEPT ![p] = Nil]
    /\ trace' = [trace EXCEPT ![p] = <<>>]
    /\ applied' = [applied EXCEPT ![p] = {}]
    /\ plan' = [plan EXCEPT ![p] = <<>>]
    /\ idx' = [idx EXCEPT ![p] = 1]
    /\ startedAt' = [startedAt EXCEPT ![p] = 0]
    /\ executionTime' = [executionTime EXCEPT ![p] = 0]
    /\ UNCHANGED <<solo, pooled, dbVars, lockVars, sessTx, clock, tx, pendVars,
                   keyVars>>

Call(p) == CallWith(p, CallInputs)

\* Apply cut short for an empty slice: from lock() straight to the unlock.
AfterLock_CutShort(ms) == IF ms = <<>> THEN "unlock" ELSE "createBegin"

\* Where Apply continues when lock() has succeeded: at createMigrationsTable,
\* whatever the length of the slice.
AfterLock(ms) == "createBegin"

\* Apply going on to createMigrationsTable although lock() failed.
OnLockError_GoesOn == "createBegin"

\* Where Apply continues when lock() has failed: at its return, before the
\* unlock is deferred.
OnLockError == "done"

\* lock() without its test of db.
IsNilDB_Unchecked(d) == FALSE

\* db == nil
IsNilDB(d) == d = "nil"

\* lock() returning without a statement sent, or with the error of the
\* statement, and the return of Apply.
LockFails(p) ==
    \/ /\ IsNilDB(db[p])
       /\ err' = [err EXCEPT ![p] = ErrNilDB]
       /\ pc' = [pc EXCEPT ![p] = "done"]
       /\ UNCHANGED <<trace, lockVars>>
    \/ /\ ~IsNilDB(db[p])
       /\ IdleSessions(p) # {}
       /\ err' = [err EXCEPT ![p] = DBError("lock")]
       /\ pc' = [pc EXCEPT ![p] = OnLockError]
       /\ trace' = [trace EXCEPT ![p] = Append(@, Ev("lock", FALSE, NoID))]
       /\ UNCHANGED lockVars

\* A lock statement that returns without the lock taken.
LockedBy_Nobody(s) == 0

\* The session that holds the advisory lock once SELECT pg_advisory_lock has
\* returned on session s.
LockedBy(s) == s

\* pg_advisory_lock returning on session s: the lock is free or held by s
\* itself; then the log message of lock().
Granted(p, s, o) ==
    /\ lockHolder \in {0, s}
    /\ lockHolder' = LockedBy(s)
    /\ lockCount' = lockCount + 1
    /\ trace' = [trace EXCEPT ![p] =
                   Append(@, Ev("lock", TRUE, NoID)) \o LogTrace(o, Locked)]
    /\ pc' = [pc EXCEPT ![p] =
                IF o = "panic" THEN "panicked" ELSE AfterLock(migrations[p])]

\* m.lock(db) and the return of Apply when it fails.
Lock(p) ==
    /\ pc[p] = "lock"
    /\ \/ LockFails(p)
       \/ /\ ~IsNilDB(db[p])
          /\ \E s \in IdleSessions(p), o \in LogOutcomes(p) : Granted(p, s, o)
          /\ UNCHANGED err
    /\ UNCHANGED <<dbVars, sessTx, clock, callVars, keyVars, planVars, startedAt, executionTime,
                   tx, pendVars>>

\* Apply returning at once on an error, the unlock not deferred.
OnError_ReturnAtOnce == "done"

\* Where Apply continues when a step after lock() has failed: at the deferred
\* function, which unlocks.
OnError == "unlock"

\* Statements issued outside the transaction: durable whatever its end.
Durable_Autocommit(writes, committed) == writes

\* What a transaction leaves in the database when it ends: its writes if
\* tx.Commit succeeded, nothing after tx.Rollback or a failed commit.
Durable(writes, committed) == IF committed THEN writes ELSE <<>>

\* A commit that leaves in the table only the rows of the transaction.
Inserted_Replacing(rows, new) == new

\* The table after the transaction's INSERT statements are committed: the
\* rows it had, then the new ones.
Inserted(rows, new) == rows \o new

\* A script run on the connection, outside the transaction: what it did stays
\* whatever becomes of the transaction.
ScriptEffects_OutsideTx(writes, committed) == writes

\* The scripts are run with tx.Exec, on the transaction that also gets the
\* INSERT statements: what they did is kept or dropped with it.
ScriptEffects(writes, committed) == Durable(writes, committed)

\* transaction dropping the error of tx.Commit.
CommitFailed_Ignored == Nil

\* What transaction returns when tx.Commit failed: the error of the commit.
CommitFailed == DBError("commit")

\* Leaving a transaction: its session is idle again.
EndTx(p, committed) ==
    /\ sessTx' = [sessTx EXCEPT ![tx[p]] = 0]
    /\ tx' = [tx EXCEPT ![p] = 0]
    /\ ledger' = Inserted(ledger, Durable(pendRows[p], committed))
    /\ effects' = effects \o ScriptEffects(pendEffects[p], committed)
    /\ pendRows' = [pendRows EXCEPT ![p] = <<>>]
    /\ pendEffects' = [pendEffects EXCEPT ![p] = <<>>]

\* A rollback that takes the tracking table with it.
RolledBack_WithTable(exists) == FALSE

\* The tracking table after tx.Rollback: as it was, the table having been
\* created and committed by the transaction of createMigrationsTable.
RolledBack(exists) == exists

\* What transaction returns when its body failed with e and tx.Rollback
\* returned r: e, the result of the rollback being discarded.
AfterRollback(e, r) == e

\* transaction's deferred function on the error path, the body having failed
\* with e: tx.Rollback, which may fail; the transaction is over either way.
Rollback(p, e, evs, to) ==
    /\ EndTx(p, FALSE)
    /\ tableExists' = RolledBack(tableExists)
    /\ \E ok \in BOOLEAN :
         /\ trace' = [trace EXCEPT ![p] = @ \o evs \o <<Ev("rollback", ok, NoID)>>]
         /\ err' = [err EXCEPT ![p] =
                      AfterRollback(e, IF ok THEN Nil ELSE DBError("rollback"))]
    /\ pc' = [pc EXCEPT ![p] = to]

\* Apply going on to the execution transaction whatever createMigrationsTable
\* returned.
AfterCreate_Unchecked(e) == "txBegin"

\* Where Apply continues when createMigrationsTable has returned e.
AfterCreate(e) == IF e = Nil THEN "txBegin" ELSE OnError

\* db.Begin of m.transaction, for the table creation (from = "createBegin")
\* and for the execution transaction (from = "txBegin").
Begin(p, from, to, failed) ==
    /\ pc[p] = from
    /\ IdleSessions(p) # {}
    /\ \/ /\ err' = [err EXCEPT ![p] = DBError("begin")]
          /\ pc' = [pc EXCEPT ![p] = failed]
          /\ trace' = [trace EXCEPT ![p] = Append(@, Ev("begin", FALSE, NoID))]
          /\ UNCHANGED <<tx, sessTx>>
       \/ /\ \E s \in IdleSessions(p) :
               /\ tx' = [tx EXCEPT ![p] = s]
               /\ sessTx' = [sessTx EXCEPT ![s] = p]
          /\ pc' = [pc EXCEPT ![p] = to]
          /\ trace' = [trace EXCEPT ![p] = Append(@, Ev("begin", TRUE, NoID))]
          /\ UNCHANGED err
    /\ UNCHANGED <<dbVars, lockVars, clock, callVars, keyVars, planVars,
                   startedAt, executionTime, pendVars>>

CreateBegin(p) ==
    Begin(p, "createBegin", "createExec", AfterCreate(DBError("begin")))

\* createMigrationsTable returning with its transaction left open.
AfterCreateExec_NoCommit == "txBegin"

\* Where the table creation continues when its statement has succeeded: at
\* the deferred function of transaction, which commits.
AfterCreateExec == "createCommit"

\* createMigrationsTable: the CREATE TABLE IF NOT EXISTS statement.
CreateExec(p) ==
    /\ pc[p] = "createExec"
    /\ \/ /\ Rollback(p, DBError("create"),
                      <<Ev("create", FALSE, NoID)>>, AfterCreate(DBError("create")))
       \/ /\ pc' = [pc EXCEPT ![p] = AfterCreateExec]
          /\ trace' = [trace EXCEPT ![p] = Append(@, Ev("create", TRUE, NoID))]
          /\ UNCHANGED <<err, tx, sessTx, pendVars, dbVars>>
    /\ UNCHANGED <<lockVars, clock, callVars, keyVars, planVars, startedAt, executionTime>>

\* createMigrationsTable: tx.Commit of the table creation.
CreateCommit(p) ==
    /\ pc[p] = "createCommit"
    /\ \/ /\ EndTx(p, FALSE)
          /\ err' = [err EXCEPT ![p] = CommitFailed]
          /\ pc' = [pc EXCEPT ![p] = AfterCreate(CommitFailed)]
          /\ trace' = [trace EXCEPT ![p] = Append(@, Ev("commit", FALSE, NoID))]
          /\ UNCHANGED tableExists
       \/ /\ EndTx(p, TRUE)
          /\ tableExists' = TRUE
          /\ pc' = [pc EXCEPT ![p] = AfterCreate(Nil)]
          /\ trace' = [trace EXCEPT ![p] = Append(@, Ev("commit", TRUE, NoID))]
          /\ UNCHANGED err
    /\ UNCHANGED <<lockVars, clock, callVars, keyVars, planVars, startedAt, executionTime>>

TxBegin(p) == Begin(p, "txBegin", "query", OnError)

\* db.Query on the tracking table giving rows (none) when the table does not
\* exist.
Queried_MissingIsEmpty(exists, broken) == ~broken

\* db.Query on the tracking table: it returns rows when the table exists and
\* the connection works, else an error.
Queried(exists, broken) == exists /\ ~broken

\* A ledger reader that returns an empty map.
LedgerIDs_Empty == {}

\* The IDs of the rows a query of the tracking table returns.
LedgerIDs == { ledger[i].id : i \in 1..Len(ledger) }

\* The rows of the tracking table as the query gives them: ORDER BY id ASC.
OrderedByID(rows) ==
    { t \in Arrangements(rows) :
        \A i, j \in 1..Len(t) : i < j => ~StrLess(t[j].id, t[i].id) }

\* What rows.Scan does with a row: it fills the AppliedMigration ("ok"), or it
\* fails at the first column and leaves the ID empty ("noID"), or it fails at
\* a later column, the ID already set ("partial").
ScanOutcomes == {"ok", "noID", "partial"}

ScansOf(rows) == [1..Len(rows) -> ScanOutcomes]

AllScanned(rows) == [i \in 1..Len(rows) |-> "ok"]

\* The rows that rows.Next() announces: all of them, or, with a Rows that
\* closes itself when a Scan fails (as the Rows of pgx does), those up to the
\* first one whose Scan fails.
Delivered(rows, scans, closes) ==
    LET failing == { i \in 1..Len(rows) : scans[i] # "ok" }
    IN  IF closes /\ failing # {}
        THEN SubSeq(rows, 1, CHOOSE i \in failing : \A j \in failing : i <= j)
        ELSE rows

\* The loop of GetAppliedMigrations over the announced rows: err is assigned
\* by every rows.Scan, so it ends as the result of the last one; the
\* AppliedMigration is appended whatever Scan returned, and every appended
\* one becomes an entry of the map under the ID it has.
Scanned(rows, scans) ==
    [applied |-> { IF scans[i] = "noID" THEN NoID ELSE rows[i].id : i \in 1..Len(rows) },
     err |-> IF rows = <<>> \/ scans[Len(rows)] = "ok" THEN Nil ELSE DBError("scan")]

\* GetAppliedMigrations: the map it returns (by its keys) and its error.
GetAppliedMigrations(exists, broken, rows, scans, closes) ==
    IF Queried(exists, broken)
    THEN Scanned(Delivered(rows, scans, closes), scans)
    ELSE [applied |-> {}, err |-> DBError("query")]

\* GetAppliedMigrations, then the plan: filter, SortMigrations.
Query(p) ==
    /\ pc[p] = "query"
    /\ \/ /\ \E broken \in BOOLEAN, rows \in OrderedByID(ledger) :
               \E scans \in ScansOf(rows) :
                   GetAppliedMigrations(tableExists, broken, rows, scans, TRUE).err # Nil
          /\ Rollback(p, DBError("query"),
                      <<Ev("query", FALSE, NoID)>>, OnError)
          /\ UNCHANGED planVars
       \/ /\ \E rows \in OrderedByID(ledger) :
               GetAppliedMigrations(tableExists, FALSE, rows, AllScanned(rows), TRUE).err = Nil
          /\ applied' = [applied EXCEPT ![p] = LedgerIDs]
          /\ \E sorted \in SortMigrations(Unapplied(migrations[p], LedgerIDs)) :
               /\ plan' = [plan EXCEPT ![p] = sorted]
               /\ pc' = [pc EXCEPT ![p] = IF sorted = <<>> THEN "commit" ELSE "script"]
          /\ idx' = [idx EXCEPT ![p] = 1]
          /\ trace' = [trace EXCEPT ![p] = Append(@, Ev("query", TRUE, NoID))]
          /\ UNCHANGED <<err, tx, sessTx, pendVars, dbVars>>
    /\ UNCHANGED <<lockVars, clock, callVars, keyVars, startedAt, executionTime>>

\* transaction's deferred function losing the recovered panic.
Recovered_Lost(panic) == Nil

\* transaction's deferred function: recover() turns the panic into the error
\* transaction returns.
Recovered(panic) == DBError(panic)

\* The readings time.Now() can give next.
Now == { t \in {clock, clock + 1} : t <= MaxClock }

\* The readings time.Now() can give after it gave t.
Later(t) == { u \in {t, t + 1} : u <= MaxClock }

\* An elapsed time taken from the later reading to the earlier one.
Since_Backwards(now, start) == start - now

\* time.Since(startedAt), in milliseconds.
Since(now, start) == now - start

\* runMigration, first half: startedAt, the script, executionTime, the log
\* message.
Script(p) ==
    /\ pc[p] = "script"
    /\ LET m == plan[p][idx[p]] IN
       \E t \in Now :
         /\ startedAt' = [startedAt EXCEPT ![p] = t]
         /\ \/ /\ clock' = t
               /\ Rollback(p, MigrationFailed(m.ID, DBError("script")),
                           <<Ev("script", FALSE, m.ID)>>, OnError)
               /\ UNCHANGED executionTime
            \/ \E now \in Later(t), o \in LogOutcomes(p) :
                 LET logged == LogTrace(o, Applied(m.ID, Since(now, t))) IN
                 /\ clock' = now
                 /\ executionTime' = [executionTime EXCEPT ![p] = Since(now, t)]
                 /\ IF o = "panic"
                    THEN /\ Rollback(p, Recovered("panic"),
                                     <<Ev("script", TRUE, m.ID)>> \o logged, OnError)
                    ELSE /\ pendEffects' = [pendEffects EXCEPT ![p] =
                                              Append(@, [id |-> m.ID, by |-> CallOf(p)])]
                         /\ trace' = [trace EXCEPT ![p] =
                                        Append(@, Ev("script", TRUE, m.ID)) \o logged]
                         /\ pc' = [pc EXCEPT ![p] = "insert"]
                         /\ UNCHANGED <<err, tx, sessTx, pendRows, dbVars>>
    /\ UNCHANGED <<lockVars, callVars, keyVars, planVars>>

\* runMigration, second half: the INSERT into the tracking table.
Insert(p) ==
    /\ pc[p] = "insert"
    /\ LET m == plan[p][idx[p]] IN
       \/ /\ Rollback(p, DBError("insert"),
                      <<Ev("insert", FALSE, m.ID)>>, OnError)
          /\ UNCHANGED idx
       \/ /\ pendRows' = [pendRows EXCEPT ![p] =
                            Append(@, [id |-> m.ID, checksum |-> MD5(m.Script),
                                       elapsed |-> executionTime[p],
                                       appliedAt |-> startedAt[p], by |-> CallOf(p)])]
          /\ idx' = [idx EXCEPT ![p] = @ + 1]
          /\ pc' = [pc EXCEPT ![p] =
                      IF idx[p] + 1 > Len(plan[p]) THEN "commit" ELSE "script"]
          /\ trace' = [trace EXCEPT ![p] = Append(@, Ev("insert", TRUE, m.ID))]
          /\ UNCHANGED <<err, tx, sessTx, pendEffects, dbVars>>
    /\ UNCHANGED <<lockVars, clock, callVars, keyVars, applied, plan,
                   startedAt, executionTime>>

\* transaction's deferred function on the success path: tx.Commit.
Commit(p) ==
    /\ pc[p] = "commit"
    /\ \/ /\ EndTx(p, FALSE)
          /\ err' = [err EXCEPT ![p] = CommitFailed]
          /\ trace' = [trace EXCEPT ![p] = Append(@, Ev("commit", FALSE, NoID))]
       \/ /\ EndTx(p, TRUE)
          /\ trace' = [trace EXCEPT ![p] = Append(@, Ev("commit", TRUE, NoID))]
          /\ UNCHANGED err
    /\ pc' = [pc EXCEPT ![p] = "unlock"]
    /\ UNCHANGED <<tableExists, lockVars, clock, callVars, keyVars, planVars,
                   startedAt, executionTime>>

\* Apply's deferred function: m.unlock(db), then the return of Apply.
\* pg_advisory_unlock on a session that does not hold the lock releases
\* nothing and is no error.
Unlock(p) ==
    /\ pc[p] = "unlock"
    /\ IdleSessions(p) # {}
    /\ \/ /\ err' = [err EXCEPT ![p] = AfterUnlock(@, DBError("unlock"))]
          /\ pc' = [pc EXCEPT ![p] = "done"]
          /\ trace' = [trace EXCEPT ![p] = Append(@, Ev("unlock", FALSE, NoID))]
          /\ UNCHANGED lockVars
       \/ /\ \E s \in IdleSessions(p), o \in LogOutcomes(p) :
               /\ IF lockHolder = s
                  THEN /\ lockCount' = lockCount - 1
                       /\ lockHolder' = IF lockCount = 1 THEN 0 ELSE s
                  ELSE UNCHANGED lockVars
               /\ trace' = [trace EXCEPT ![p] =
                              Append(@, Ev("unlock", TRUE, NoID)) \o LogTrace(o, Unlocked)]
               /\ pc' = [pc EXCEPT ![p] = IF o = "panic" THEN "panicked" ELSE "done"]
          /\ err' = [err EXCEPT ![p] = AfterUnlock(@, Nil)]
    /\ UNCHANGED <<dbVars, sessTx, clock, callVars, keyVars, planVars, startedAt, executionTime,
                   tx, pendVars>>

Next ==
    \E p \in Procs :
        \/ Call(p)
        \/ Lock(p)
        \/ CreateBegin(p)
        \/ CreateExec(p)
        \/ CreateCommit(p)
        \/ TxBegin(p)
        \/ Query(p)
        \/ Script(p)
        \/ Insert(p)
        \/ Commit(p)
        \/ Unlock(p)

Spec == Init /\ [][Next]_vars

\* ------------------------------------------------- waiting for the lock
\* The same callers, with the wait of pg_advisory_lock made a state: the
\* statement is sent on a session and returns when that session is given the
\* lock.  m.ctx is context.Background() and the statement sets no timeout, so
\* nothing else ends the wait.
LockIssue(p) ==
    /\ pc[p] = "lock"
    /\ \/ /\ LockFails(p)
          /\ UNCHANGED waiting
       \/ /\ ~IsNilDB(db[p])
          /\ \E s \in IdleSessions(p) : waiting' = [waiting EXCEPT ![p] = s]
          /\ pc' = [pc EXCEPT ![p] = "locking"]
          /\ UNCHANGED <<err, trace, lockVars>>
    /\ UNCHANGED <<dbVars, sessTx, clock, callVars, migrator, advisory, quoted,
                   read, planVars, startedAt, executionTime, tx, pendVars>>

LockGranted(p) ==
    /\ pc[p] = "locking"
    /\ \E o \in LogOutcomes(p) : Granted(p, waiting[p], o)
    /\ waiting' = [waiting EXCEPT ![p] = 0]
    /\ UNCHANGED <<dbVars, sessTx, clock, callVars, migrator, advisory, quoted,
                   read, planVars, startedAt, executionTime, tx, pendVars, err>>

WaitNext ==
    \E p \in Procs :
        \/ Call(p)
        \/ LockIssue(p)
        \/ LockGranted(p)
        \/ CreateBegin(p)
        \/ CreateExec(p)
        \/ CreateCommit(p)
        \/ TxBegin(p)
        \/ Query(p)
        \/ Script(p)
        \/ Insert(p)
        \/ Commit(p)
        \/ Unlock(p)

WaitSpec == Init /\ [][WaitNext]_vars

\* ------------------------------------------------ slices with repeated IDs
\* One caller, on a working connection of its own and without a Logger, calls
\* Apply in sequence with slices in which IDs may repeat.
RepeatInputs ==
    [db : {"conn"}, logger : {"nil"}, migrations : RepeatingSlices]

RepeatInit ==
    /\ solo = TRUE
    /\ pooled = FALSE
    /\ migrator = [p \in Procs |-> NewMigrator]
    /\ Fresh

CallWithRepeats(p) == CallWith(p, RepeatInputs)

RepeatNext ==
    \E p \in Procs :
        \/ CallWithRepeats(p)
        \/ Lock(p)
        \/ CreateBegin(p)
        \/ CreateExec(p)
        \/ CreateCommit(p)
        \/ TxBegin(p)
        \/ Query(p)
        \/ Script(p)
        \/ Insert(p)
        \/ Commit(p)
        \/ Unlock(p)

RepeatSpec == RepeatInit /\ [][RepeatNext]_vars

\* ----------------------------------------- Migrators with different tables
\* Callers whose Migrators differ in SchemaName and TableName call m.lock(db)
\* and m.unlock(db), each on a connection (a session) of its own, against one
\* database.  A session waits for an advisory lock while another session
\* holds a lock with the same ID.
LockInit ==
    /\ solo = FALSE
    /\ pooled = FALSE
    /\ migrator \in [Procs -> Migrators]
    /\ Fresh

Held(id, s) == [key |-> id, session |-> s]

\* m.lock(db): SELECT pg_advisory_lock(lockID).
LockWithID(p) ==
    /\ pc[p] = "idle"
    /\ LET lockID == AdvisoryLockID(migrator[p]) IN
       \/ /\ err' = [err EXCEPT ![p] = DBError("lock")]
          /\ UNCHANGED <<pc, advisory>>
       \/ /\ \A h \in advisory : h.key = lockID => h.session = p
          /\ advisory' = advisory \cup {Held(lockID, p)}
          /\ pc' = [pc EXCEPT ![p] = "locked"]
          /\ err' = [err EXCEPT ![p] = Nil]
    /\ UNCHANGED <<dbVars, lockVars, sessTx, clock, callVars, planVars, startedAt, executionTime,
                   tx, pendVars, trace, migrator, quoted, read, waiting>>

\* m.unlock(db): SELECT pg_advisory_unlock(lockID).
UnlockWithID(p) ==
    /\ pc[p] = "locked"
    /\ LET lockID == AdvisoryLockID(migrator[p]) IN
       \/ /\ err' = [err EXCEPT ![p] = DBError("unlock")]
          /\ UNCHANGED <<pc, advisory>>
       \/ /\ advisory' = advisory \ {Held(lockID, p)}
          /\ pc' = [pc EXCEPT ![p] = "idle"]
          /\ err' = [err EXCEPT ![p] = Nil]
    /\ UNCHANGED <<dbVars, lockVars, sessTx, clock, callVars, planVars, startedAt, executionTime,
                   tx, pendVars, trace, migrator, quoted, read, waiting>>

LockNext == \E p \in Procs : LockWithID(p) \/ UnlockWithID(p)

LockSpec == LockInit /\ [][LockNext]_vars

\* -------------------------------------------------- quoting the table name
\* A Migrator with any SchemaName of at most one character and any TableName
\* of at most MaxIdent characters has its names quoted, as
\* createMigrationsTable, GetAppliedMigrations and runMigration do.
QuoteInit ==
    /\ solo = TRUE
    /\ pooled = FALSE
    /\ \E m \in [SchemaName : Idents(1), TableName : Idents(MaxIdent)] :
         migrator = [p \in Procs |-> IF p = 1 THEN m ELSE NewMigrator]
    /\ Fresh

QuoteIdent ==
    /\ quoted' = [fn |-> "QuotedIdent", out |-> QuotedIdent(migrator[1].TableName)]
    /\ UNCHANGED <<dbVars, lockVars, sessTx, clock, callVars, planVars, startedAt, executionTime,
                   tx, pendVars, trace, pc, err, migrator, advisory, read, waiting>>

QuoteTableName ==
    /\ quoted' = [fn |-> "QuotedTableName",
                  out |-> QuotedTableName(migrator[1].SchemaName,
                                          migrator[1].TableName)]
    /\ UNCHANGED <<dbVars, lockVars, sessTx, clock, callVars, planVars, startedAt, executionTime,
                   tx, pendVars, trace, pc, err, migrator, advisory, read, waiting>>

\* LockIdentifierForTable(tableName), called with the Migrator's table name.
QuoteLockIdentifier ==
    /\ quoted' = [fn |-> "LockIdentifierForTable",
                  out |-> LockIdentifierForTable(migrator[1].TableName)]
    /\ UNCHANGED <<dbVars, lockVars, sessTx, clock, callVars, planVars, startedAt, executionTime,
                   tx, pendVars, trace, pc, err, migrator, advisory, read, waiting>>

QuoteNext == QuoteIdent \/ QuoteTableName \/ QuoteLockIdentifier

QuoteSpec == QuoteInit /\ [][QuoteNext]_vars

\* ------------------------------------------- the ledger reader on its own
\* A caller on a connection of its own calls GetAppliedMigrations directly,
\* on a database before the first Apply (no tracking table) or after earlier
\* calls of Apply have applied the migrations of a slice.
AppliedEarlier(ms) ==
    [i \in 1..Len(ms) |-> [id |-> ms[i].ID, checksum |-> MD5(ms[i].Script),
                           elapsed |-> 0, appliedAt |-> 0, by |-> <<1, 0>>]]

ReadInit ==
    /\ solo = TRUE
    /\ pooled = FALSE
    /\ migrator = [p \in Procs |-> NewMigrator]
    /\ NoCalls
    /\ \/ /\ tableExists = FALSE
          /\ ledger = <<>>
          /\ effects = <<>>
       \/ /\ tableExists = TRUE
          /\ \E ms \in Slices :
               /\ ledger = AppliedEarlier(ms)
               /\ effects = [i \in 1..Len(ms) |-> [id |-> ms[i].ID, by |-> <<1, 0>>]]

\* migrator.GetAppliedMigrations(db), outside of Apply, on any Queryer.
CallGetAppliedMigrations(p) ==
    /\ p \in Callers
    /\ pc[p] \in {"idle", "done"}
    /\ \E broken, closes \in BOOLEAN, rows \in OrderedByID(ledger) :
         \E scans \in ScansOf(rows) :
             LET r == GetAppliedMigrations(tableExists, broken, rows, scans, closes)
             IN  read' = [called |-> TRUE, exists |-> tableExists, rows |-> Len(ledger),
                          broken |-> broken, scans |-> scans,
                          ids |-> [i \in 1..Len(rows) |-> rows[i].id],
                          closes |-> closes, applied |-> r.applied, err |-> r.err]
    /\ UNCHANGED <<dbVars, lockVars, sessTx, clock, callVars, planVars, startedAt, executionTime,
                   tx, pendVars, trace, pc, err, migrator, advisory, quoted, waiting>>

ReadNext == \E p \in Procs : CallGetAppliedMigrations(p)

ReadSpec == ReadInit /\ [][ReadNext]_vars

\* -------------------------------------------------------------- properties
\* Reading the state.
Statements(p) == 1..Len(trace[p])

Has(p, op, ok) == \E i \in Statements(p) : trace[p][i].op = op /\ trace[p][i].ok = ok

Count(p, op) == Cardinality({ i \in Statements(p) : trace[p][i].op = op })

Returned(p) == pc[p] = "done"

\* The committed rows and script effects written by call c.
RowsBy(c) == SelectSeq(ledger, LAMBDA r : r.by = c)

EffectsBy(c) == SelectSeq(effects, LAMBDA e : e.by = c)

RowIDs(rows) == [i \in 1..Len(rows) |-> rows[i].id]

PlanIDs(p) == [i \in 1..Len(plan[p]) |-> plan[p][i].ID]

InputIDs(p) == { migrations[p][i].ID : i \in 1..Len(migrations[p]) }

UniqueIDs(ms) == \A i, j \in 1..Len(ms) : i # j => ms[i].ID # ms[j].ID

\* A caller is between its successful lock statement and its unlock statement.
InCriticalSection(p) ==
    pc[p] \in {"createBegin", "createExec", "createCommit", "txBegin", "query",
               "script", "insert", "commit", "unlock"}

\* C1: at most one Apply call at a time is between its successful lock
\* acquisition and its unlock.
C1_MutualExclusion == Cardinality({ p \in Procs : InCriticalSection(p) }) <= 1

\* C1 holds of callers that each have a session of their own.
C1_OwnSessionExclusion == ~pooled => C1_MutualExclusion

\* The executions of the script of migration id, over all callers' current calls.
ScriptRuns(id) ==
    UNION { { <<p, i>> : i \in { j \in Statements(p) :
                                   trace[p][j].op = "script" /\ trace[p][j].id = id } } :
            p \in Procs }

LedgerRowsOf(id) == { i \in 1..Len(ledger) : ledger[i].id = id }

\* Concurrent callers all passed the same set of migrations, with unique IDs,
\* and all their calls returned without error.
SameSetAllSucceeded ==
    /\ ~solo
    /\ \A p \in Procs : Returned(p) /\ err[p] = Nil /\ UniqueIDs(migrations[p])
    /\ \A p, q \in Procs : InputIDs(p) = InputIDs(q)

\* C2: when concurrent calls with the same migration set have all returned
\* without error, each migration's script was executed exactly once in total,
\* the ledger holds exactly one row per migration, and at most one call had a
\* plan that was not empty.
C2_ExactlyOnce ==
    SameSetAllSucceeded =>
        /\ \A id \in InputIDs(1) :
             /\ Cardinality(ScriptRuns(id)) = 1
             /\ Cardinality(LedgerRowsOf(id)) = 1
        /\ Cardinality({ p \in Procs : plan[p] # <<>> }) <= 1

\* C2 holds of callers that each have a session of their own.
C2_OwnSessionExactlyOnce == ~pooled => C2_ExactlyOnce

\* Byte-wise order of strings, stated without recursion: a <= b when a is a
\* prefix of b or a has the smaller byte at the first position they differ.
BytewiseLE(a, b) ==
    \E k \in 0..Len(a) :
        /\ k <= Len(b)
        /\ \A i \in 1..k : a[i] = b[i]
        /\ \/ k = Len(a)
           \/ k < Len(b) /\ a[k + 1] < b[k + 1]

BytewiseLess(a, b) == BytewiseLE(a, b) /\ a # b

Occurrences(s, x) == Cardinality({ i \in 1..Len(s) : s[i] = x })

\* The call has read the ledger, so its plan has been computed.
Planned(p) == Has(p, "query", TRUE)

\* C3: the plan holds each supplied migration whose ID is not a key of the
\* ledger map read in the transaction, as often as it was supplied, and no
\* other; it is in ascending byte-wise order of ID.
C3_PlanIsSortedDiff ==
    \A p \in Procs :
        Planned(p) =>
            /\ \A i \in 1..Len(plan[p]) :
                 /\ plan[p][i].ID \notin applied[p]
                 /\ \E j \in 1..Len(migrations[p]) : migrations[p][j] = plan[p][i]
            /\ \A j \in 1..Len(migrations[p]) :
                 migrations[p][j].ID \notin applied[p] =>
                     Occurrences(plan[p], migrations[p][j])
                         = Occurrences(migrations[p], migrations[p][j])
            /\ \A i, j \in 1..Len(plan[p]) :
                 i < j => BytewiseLE(plan[p][i].ID, plan[p][j].ID)

\* A plan of two migrations that drops an applied migration of the slice and
\* is not in the order of the slice.
C3_Witness ==
    \E p \in Procs :
        /\ Planned(p)
        /\ Len(migrations[p]) = 3
        /\ Len(plan[p]) = 2
        /\ plan[p] # Unapplied(migrations[p], applied[p])

\* The IDs whose scripts the current call has executed, in order of execution.
RECURSIVE ScriptIDs(_)
ScriptIDs(t) ==
    IF t = <<>> THEN <<>>
    ELSE IF Head(t).op = "script" THEN <<Head(t).id>> \o ScriptIDs(Tail(t))
    ELSE ScriptIDs(Tail(t))

Executed(p) == ScriptIDs(trace[p])

\* The IDs supplied to the call that the ledger map it read does not hold.
Missing(p) == InputIDs(p) \ applied[p]

\* C4: whatever the order of the slice, the scripts of one call are executed
\* in ascending order of ID: each script executed is the one with the smallest
\* ID among those supplied, missing from the ledger and not yet executed; and
\* of two rows written by one call, the one with the smaller ID has no later
\* AppliedAt.
C4_AscendingExecution ==
    /\ \A p \in Procs :
         LET ran == Executed(p) IN
         \A i \in 1..Len(ran) :
             /\ ran[i] \in Missing(p)
             /\ \A id \in Missing(p) :
                  BytewiseLess(id, ran[i]) <=> \E j \in 1..(i - 1) : ran[j] = id
    /\ \A p \in Procs :
         LET rows == ledger \o pendRows[p] IN
         \A i, j \in 1..Len(rows) :
             rows[i].by = rows[j].by /\ BytewiseLess(rows[i].id, rows[j].id)
                 => rows[i].appliedAt <= rows[j].appliedAt

\* A call given a slice in descending order of ID has executed all three
\* scripts and committed, the clock having advanced meanwhile.
C4_Witness ==
    \E p \in Procs :
        /\ Returned(p) /\ err[p] = Nil
        /\ Len(Executed(p)) = 3
        /\ BytewiseLess(migrations[p][3].ID, migrations[p][2].ID)
        /\ BytewiseLess(migrations[p][2].ID, migrations[p][1].ID)
        /\ \E i, j \in 1..Len(ledger) : ledger[i].appliedAt < ledger[j].appliedAt

\* The database statements of the current call, log calls left out.
Issued(p) == SelectSeq(trace[p], LAMBDA e : e.op # "log")

Ops(t) == [i \in 1..Len(t) |-> t[i].op]

\* The lone caller's first call, on the empty database, returned without error.
FirstCallSucceeded ==
    solo /\ calls[1] = 1 /\ Returned(1) /\ err[1] = Nil

\* The lone caller is in (or has returned from) its second call, whose
\* migrations are exactly the ones its first call recorded.
SecondCallSameSet ==
    /\ solo /\ calls[1] = 2
    /\ UniqueIDs(migrations[1])
    /\ Len(RowsBy(<<1, 1>>)) = Len(migrations[1])
    /\ { ledger[i].id : i \in { j \in 1..Len(ledger) : ledger[j].by = <<1, 1>> } }
           = InputIDs(1)

\* C5: after a first Apply of M on an empty database the ledger holds exactly
\* one row per migration of M; a second Apply of M leaves ledger and script
\* effects as they are, executes no script and inserts no row, and when it
\* returns without error it has issued the lock statement, begun and committed
\* the table-creation and the execution transaction, and issued the unlock
\* statement.
C5_Idempotent ==
    /\ [](FirstCallSucceeded =>
            /\ Len(ledger) = Len(migrations[1])
            /\ \A id \in InputIDs(1) : Cardinality(LedgerRowsOf(id)) = 1)
    /\ [](SecondCallSameSet =>
            /\ Len(ledger) = Len(migrations[1])
            /\ RowsBy(<<1, 2>>) = <<>>
            /\ Executed(1) = <<>>
            /\ Count(1, "insert") = 0
            /\ (Returned(1) /\ err[1] = Nil =>
                   Ops(Issued(1)) = <<"lock", "begin", "create", "commit",
                                      "begin", "query", "commit", "unlock">>))
    /\ [][SecondCallSameSet => ledger' = ledger /\ effects' = effects]_vars

\* The second Apply of a set of three migrations has returned without error.
C5_Witness ==
    /\ SecondCallSameSet
    /\ Len(migrations[1]) = 3
    /\ Returned(1) /\ err[1] = Nil

\* C6: the rows (and script effects) a call has made durable are those of its
\* whole plan, in plan order, or none; they are none when the call returns an
\* error of a step before the unlock, and the whole plan when it returns none.
C6_AllOrNothing ==
    \A p \in Procs :
        LET rows == RowIDs(RowsBy(CallOf(p)))
            effs == RowIDs(EffectsBy(CallOf(p)))
        IN  /\ rows \in {<<>>, PlanIDs(p)}
            /\ effs = rows
            /\ Returned(p) /\ err[p].base \notin {"nil", "unlock"} => rows = <<>>
            /\ Returned(p) /\ err[p] = Nil => rows = PlanIDs(p)

\* A call whose third insert failed, after two scripts and two inserts had
\* succeeded, has returned.
C6_Witness ==
    \E p \in Procs :
        /\ Returned(p)
        /\ Len(plan[p]) = 3
        /\ idx[p] = 3
        /\ err[p].base = "insert"

FailedScripts(p) ==
    { i \in Statements(p) : trace[p][i].op = "script" /\ ~trace[p][i].ok }

\* C7: once the script of the k-th planned migration has failed, the call
\* issues no further script and no further insert, its error is not nil, and
\* the ledger holds no row written by the call for migration k or a later one
\* (for a lone caller: no row for them at all).
C7_AbortOnScriptFailure ==
    \A p \in Procs :
        \A i \in FailedScripts(p) :
            /\ trace[p][i].id = plan[p][idx[p]].ID
            /\ \A j \in Statements(p) : j > i => trace[p][j].op \notin {"script", "insert"}
            /\ err[p] # Nil
            /\ \A k \in idx[p]..Len(plan[p]) :
                 /\ \A r \in 1..Len(ledger) :
                      ledger[r].by = CallOf(p) => ledger[r].id # plan[p][k].ID
                 /\ solo => plan[p][k].ID \notin LedgerIDs

\* The second of three planned scripts failed and the call has returned.
C7_Witness ==
    \E p \in Procs :
        /\ Returned(p)
        /\ FailedScripts(p) # {}
        /\ Len(plan[p]) = 3
        /\ idx[p] = 2

\* C8: the error of a call names a migration exactly when one of its scripts
\* failed; it then names the failing migration's ID and has the database's
\* error for the script in its chain.
C8_ErrorNamesFailedMigration ==
    \A p \in Procs :
        IF FailedScripts(p) # {}
        THEN \E i \in FailedScripts(p) :
                /\ err[p].mig = trace[p][i].id
                /\ err[p].mig # NoID
                /\ err[p].base = "script"
        ELSE err[p].mig = NoID

\* A call returned the error of a failed script, the unlock having failed too.
C8_Witness ==
    \E p \in Procs :
        /\ Returned(p)
        /\ FailedScripts(p) # {}
        /\ err[p].unlock # "none"

\* C9: a call that returns after its lock statement succeeded has issued the
\* unlock statement exactly once, as its last statement.
C9_UnlockOnEveryPath ==
    \A p \in Procs :
        Returned(p) /\ Has(p, "lock", TRUE) =>
            /\ Count(p, "unlock") = 1
            /\ Issued(p)[Len(Issued(p))].op = "unlock"

\* A call whose Begin failed has returned, having unlocked.
C9_Witness ==
    \E p \in Procs :
        /\ Returned(p)
        /\ err[p].base = "begin"
        /\ Count(p, "unlock") = 1

\* Every statement of the call succeeded but the unlock, which failed.
OnlyUnlockFailed(p) ==
    /\ Returned(p)
    /\ Has(p, "unlock", FALSE)
    /\ \A i \in Statements(p) : trace[p][i].op # "unlock" => trace[p][i].ok

\* C10: when only the unlock statement failed, Apply returns the unlock error,
\* and the rows and script effects of the call's plan are committed.
C10_UnlockFailureSurfaced ==
    \A p \in Procs :
        OnlyUnlockFailed(p) =>
            /\ err[p] = DBError("unlock")
            /\ RowIDs(RowsBy(CallOf(p))) = PlanIDs(p)
            /\ RowIDs(EffectsBy(CallOf(p))) = PlanIDs(p)

\* Only the unlock failed, after two migrations were applied.
C10_Witness ==
    \E p \in Procs : OnlyUnlockFailed(p) /\ Len(plan[p]) = 2

\* The statements (and log calls) of the call that failed before the unlock.
EarlierFailures(p) ==
    { i \in Statements(p) :
        ~trace[p][i].ok /\ trace[p][i].op \notin {"unlock", "rollback"} }

\* The error a failed step gives: the database's error for the statement, or
\* the recovered panic of a log call.
Cause(e) == IF e.op = "log" THEN "panic" ELSE e.op

\* C11: when a step before the unlock failed with E, the error Apply returns
\* has E at the bottom of its chain (with the migration named if E came from a
\* script), whether or not the unlock fails too; it is never nil, and when the
\* unlock failed as well its message is appended and does not replace E.
C11_PrimaryErrorPreserved ==
    \A p \in Procs :
        Returned(p) =>
            \A i \in EarlierFailures(p) :
                /\ err[p] # Nil
                /\ err[p].base = Cause(trace[p][i])
                /\ err[p].base # "unlock"
                /\ err[p].mig = (IF trace[p][i].op = "script" THEN trace[p][i].id ELSE NoID)
                /\ err[p].unlock = (IF Has(p, "unlock", FALSE) THEN "unlock" ELSE "none")

\* The commit of the execution transaction failed after a migration had run,
\* and then the unlock failed too.
C11_Witness ==
    \E p \in Procs :
        /\ Returned(p)
        /\ Count(p, "insert") = 1
        /\ \E i \in EarlierFailures(p) : trace[p][i].op = "commit"
        /\ Has(p, "unlock", FALSE)

\* The caller's current call was given no connection.
NilCall(p) == calls[p] > 0 /\ db[p] = "nil"

\* C12: a call given a nil connection issues no statement and makes no log
\* call, goes from lock() straight to its return, returns ErrNilDB, and its
\* steps leave the database, the advisory lock and the sessions as they were.
C12_NilConnection ==
    /\ [](\A p \in Procs :
            NilCall(p) =>
                /\ trace[p] = <<>>
                /\ pc[p] \in {"lock", "done"}
                /\ (Returned(p) => err[p] = ErrNilDB))
    /\ [][\A p \in Procs :
            NilCall(p)' /\ (pc'[p] # pc[p] \/ calls'[p] # calls[p]) =>
                UNCHANGED <<dbVars, lockVars, sessTx, tx, pendVars>>]_vars

\* A call with a nil connection has returned, after an earlier call had
\* applied migrations.
C12_Witness ==
    /\ NilCall(1)
    /\ Returned(1)
    /\ calls[1] = 2
    /\ Len(ledger) = 2

\* The caller's current call was given a connection and an empty slice.
EmptyCall(p) == calls[p] > 0 /\ db[p] = "conn" /\ migrations[p] = <<>>

\* The statements of an Apply call in which every statement succeeds and the
\* plan is empty.
EmptyPlanStatements ==
    <<"lock", "begin", "create", "commit", "begin", "query", "commit", "unlock">>

\* C13 as claimed: a call given a connection and an empty slice issues no
\* statement against the database and returns success.
C13_EmptySetNoStatements ==
    \A p \in Procs :
        EmptyCall(p) =>
            /\ Issued(p) = <<>>
            /\ (Returned(p) => err[p] = Nil)

\* C13 as amended: a call given a connection and an empty slice has an empty
\* plan, executes no script, inserts no row and leaves ledger and script
\* effects as they are; it is not cut short: when none of its steps fails it
\* returns success having issued the lock statement, created the tracking
\* table in its own transaction, begun the execution transaction, read the
\* ledger, committed and unlocked, and it returns success in no other way.
C13_EmptySetNoScripts ==
    /\ [](\A p \in Procs :
            EmptyCall(p) =>
                /\ plan[p] = <<>>
                /\ Executed(p) = <<>>
                /\ Count(p, "insert") = 0
                /\ RowsBy(CallOf(p)) = <<>>
                /\ EffectsBy(CallOf(p)) = <<>>
                /\ (Returned(p) =>
                       (err[p] = Nil <=> \A i \in Statements(p) : trace[p][i].ok))
                /\ (Returned(p) /\ err[p] = Nil =>
                       Ops(Issued(p)) = EmptyPlanStatements))
    /\ [][\A p \in Procs :
            EmptyCall(p)' /\ (pc'[p] # pc[p] \/ calls'[p] # calls[p]) =>
                ledger' = ledger /\ effects' = effects]_vars

\* A call with an empty slice has returned success on a database that had no
\* tracking table, and has created it.
C13_Witness ==
    /\ EmptyCall(1)
    /\ calls[1] = 1
    /\ Returned(1) /\ err[1] = Nil
    /\ tableExists

\* The lock statement of the caller's current call failed.
LockFailed(p) == Has(p, "lock", FALSE)

\* C14: when the lock statement fails, Apply returns that error at once: the
\* failed lock statement is the only thing the call did (no Begin, no CREATE,
\* no query, no script, no insert, no unlock, no log call), it holds no
\* transaction and has written nothing, and the failing step leaves the
\* database, the advisory lock and the sessions as they were.
C14_LockFailure ==
    /\ [](\A p \in Procs :
            LockFailed(p) =>
                /\ Returned(p)
                /\ err[p] = DBError("lock")
                /\ trace[p] = <<Ev("lock", FALSE, NoID)>>
                /\ tx[p] = 0
                /\ pendRows[p] = <<>> /\ pendEffects[p] = <<>>
                /\ RowsBy(CallOf(p)) = <<>>
                /\ EffectsBy(CallOf(p)) = <<>>)
    /\ [][\A p \in Procs :
            LockFailed(p)' /\ ~LockFailed(p) =>
                UNCHANGED <<dbVars, lockVars, sessTx, tx, pendVars>>]_vars

\* The lock statement of a second call failed, the first call having applied
\* two migrations.
C14_Witness ==
    /\ LockFailed(1)
    /\ calls[1] = 2
    /\ Len(migrations[1]) = 3
    /\ Len(ledger) = 2

\* The step of the table creation that failed in the caller's current call:
\* the statements of a call are the lock statement, then Begin, CREATE and
\* commit of createMigrationsTable.
ProvisioningFailures(p) ==
    { i \in 2..4 : /\ i <= Len(Issued(p))
                   /\ Issued(p)[1].ok
                   /\ ~Issued(p)[i].ok
                   /\ Issued(p)[i].op = <<"lock", "begin", "create", "commit">>[i] }

\* C15: when the Begin, the CREATE statement or the commit of the table
\* creation fails, Apply goes straight to its deferred unlock and returns that
\* error: it has begun no execution transaction, read no ledger, executed no
\* script and inserted no row, and the unlock statement is its last statement;
\* when that statement succeeded on the caller's own session, the session no
\* longer holds the lock.
C15_ProvisioningFailure ==
    \A p \in Procs :
        \A i \in ProvisioningFailures(p) :
            /\ pc[p] \in {"unlock", "done", "panicked"}
            /\ err[p].base = Issued(p)[i].op
            /\ Count(p, "begin") = 1
            /\ Count(p, "query") = 0
            /\ Executed(p) = <<>>
            /\ Count(p, "insert") = 0
            /\ RowsBy(CallOf(p)) = <<>>
            /\ (Returned(p) =>
                   /\ Count(p, "unlock") = 1
                   /\ Issued(p)[Len(Issued(p))].op = "unlock"
                   /\ (~pooled /\ calls[p] = 1 /\ Has(p, "unlock", TRUE) =>
                          lockHolder # p))

\* The commit of the table creation failed and the call has returned, its
\* unlock done.
C15_Witness ==
    \E p \in Procs :
        /\ Returned(p)
        /\ \E i \in ProvisioningFailures(p) : Issued(p)[i].op = "commit"
        /\ Has(p, "unlock", TRUE)
        /\ lockHolder = 0

\* Caller q is about to issue its lock statement and must wait for caller p:
\* p's session holds an advisory lock with the ID q's Migrator computes.
WaitsFor(q, p) ==
    /\ p # q
    /\ pc[q] = "idle"
    /\ Held(AdvisoryLockID(migrator[q]), p) \in advisory

DifferentTables(p, q) == migrator[p].TableName # migrator[q].TableName

\* The low 30 bits of the checksum of a Migrator's table name.
Low30(m) == SubSeq(ChecksumIEEE(m.TableName), 1, 30)

HeldBy(p) == { h \in advisory : h.session = p }

\* C17: Migrators with the same TableName compute the same lock ID, whatever
\* their SchemaName, and never hold their locks at once; a caller between
\* lock() and unlock() holds exactly the lock with its Migrator's ID, and
\* after unlock() it holds none: unlock used the ID lock had used.
C17_LockKeyDeterminism ==
    \A p, q \in Procs :
        /\ (~DifferentTables(p, q) =>
               /\ AdvisoryLockID(migrator[p]) = AdvisoryLockID(migrator[q])
               /\ (p # q => ~(pc[p] = "locked" /\ pc[q] = "locked")))
        /\ (pc[p] = "locked" => HeldBy(p) = {Held(AdvisoryLockID(migrator[p]), p)})
        /\ (pc[p] = "idle" => HeldBy(p) = {})

\* A Migrator waits for the lock held by a Migrator with the same TableName
\* and another SchemaName.
C17_Witness ==
    /\ ~DifferentTables(1, 2)
    /\ migrator[1].SchemaName # migrator[2].SchemaName
    /\ WaitsFor(2, 1)

\* An identifier without its whitespace, double quotes and semicolons.
Stripped(ident) ==
    SelectSeq(ident, LAMBDA r : ~IsSpace(r) /\ r # Quote /\ r # Semicolon)

\* C18: QuotedIdent returns its input without whitespace, double quotes and
\* semicolons, between one leading and one trailing double quote; the text
\* between the outer quotes holds no whitespace, double quote or semicolon.
C18_QuotedIdentStrips ==
    quoted.fn = "QuotedIdent" =>
        /\ quoted.out = <<Quote>> \o Stripped(migrator[1].TableName) \o <<Quote>>
        /\ \A i \in 2..(Len(quoted.out) - 1) :
             ~IsSpace(quoted.out[i]) /\ quoted.out[i] \notin {Quote, Semicolon}

\* C19: QuotedTableName is QuotedIdent of the table alone when the schema is
\* empty, else QuotedIdent of the schema, a dot and QuotedIdent of the table;
\* a table that is empty, or is so once stripped, is quoted as two double
\* quotes.
C19_QuotedTableNameComposes ==
    quoted.fn = "QuotedTableName" =>
        LET schema == migrator[1].SchemaName
            table  == migrator[1].TableName
        IN  /\ schema = <<>> => quoted.out = QuotedIdent(table)
            /\ schema # <<>> =>
                   quoted.out = QuotedIdent(schema) \o <<Dot>> \o QuotedIdent(table)
            /\ Stripped(table) = <<>> =>
                   quoted.out = (IF schema = <<>> THEN <<>>
                                 ELSE QuotedIdent(schema) \o <<Dot>>)
                                    \o <<Quote, Quote>>

\* C20: GetAppliedMigrations called while the tracking table does not exist
\* returns a non-nil error together with an empty map, never success with an
\* empty result; on an existing table without rows, over a working
\* connection, it returns an empty map and no error.
C20_MissingTableIsAnError ==
    read.called =>
        /\ ~read.exists => read.err # Nil /\ read.applied = {}
        /\ read.exists /\ read.rows = 0 /\ ~read.broken =>
               read.err = Nil /\ read.applied = {}

C20_Witness ==
    /\ read.called
    /\ ~read.exists
    /\ ~read.broken
    /\ read.err # Nil
    /\ read.applied = {}

\* The panics raised inside the body of the execution transaction: the log
\* calls of runMigration that did not return.
BodyPanics(p) ==
    { i \in Statements(p) :
        /\ trace[p][i].op = "log"
        /\ ~trace[p][i].ok
        /\ i > 1
        /\ trace[p][i - 1].op = "script" }

\* C21: a panic raised in the body of the execution transaction does not
\* escape Apply: the transaction is rolled back at once and never committed,
\* nothing of the call becomes durable, the call goes on to the unlock
\* statement, and when Apply returns it returns the panic as an error, with
\* the unlock issued (and the lock free, when the unlock ran on the caller's
\* own session).
C21_PanicContained ==
    \A p \in Procs :
        \A i \in BodyPanics(p) :
            /\ i < Len(trace[p])
            /\ trace[p][i + 1].op = "rollback"
            /\ \A j \in Statements(p) :
                 j > i => trace[p][j].op \in {"rollback", "unlock", "log"}
            /\ tx[p] = 0
            /\ RowsBy(CallOf(p)) = <<>>
            /\ EffectsBy(CallOf(p)) = <<>>
            /\ pc[p] \in {"unlock", "done", "panicked"}
            /\ pc[p] = "panicked" => Count(p, "unlock") = 1
            /\ Returned(p) =>
                 /\ err[p].base = "panic"
                 /\ Count(p, "unlock") = 1
                 /\ ~pooled /\ calls[p] = 1 /\ Has(p, "unlock", TRUE) => lockHolder # p

\* A call whose Logger panicked in runMigration, after one migration had been
\* run and recorded, has returned with the lock free.
C21_Witness ==
    \E p \in Procs :
        /\ BodyPanics(p) # {}
        /\ Count(p, "insert") = 1
        /\ Returned(p)
        /\ calls[p] = 1
        /\ lockHolder = 0

\* Every statement the call sent to the database succeeded.
AllStatementsSucceeded(p) ==
    \A i \in Statements(p) : trace[p][i].op # "log" => trace[p][i].ok

\* C22: a Logger whose Print panics changes nothing of a call's outcome: no
\* call is left unfinished by it, and a call all of whose statements
\* succeeded returns nil with the rows of its whole plan committed, as it
\* does with a nil Logger; with a nil Logger no log call is made.
C22_LoggingCannotChangeOutcome ==
    \A p \in Procs :
        /\ logger[p] = "nil" => Count(p, "log") = 0
        /\ pc[p] # "panicked"
        /\ Returned(p) /\ AllStatementsSucceeded(p) /\ Has(p, "lock", TRUE) =>
               /\ err[p] = Nil
               /\ RowIDs(RowsBy(CallOf(p))) = PlanIDs(p)

\* A caller's lock statement is waiting for the advisory lock.
Waiting(p) == pc[p] = "locking"

\* C23: callers of Apply cannot deadlock and every waiter gets the lock: as
\* long as every unlock statement issued so far succeeded, a state in which a
\* caller waits for the lock is one in which some caller can take a step (the
\* holder goes on to release the lock, or the waiter is given it).
C23_WaitersProgress ==
    /\ \E p \in Procs : Waiting(p)
    /\ \A q \in Procs : ~Has(q, "unlock", FALSE)
    => ENABLED WaitNext

\* C24: whatever calls of Apply were made, in sequence or at once, each with
\* pairwise distinct IDs, the committed ledger never holds two rows with the
\* same ID.
C24_LedgerUnique ==
    /\ \A p \in Procs : UniqueIDs(migrations[p])
    /\ \A i, j \in 1..Len(ledger) : i # j => ledger[i].id # ledger[j].id

\* C25: no step of any call deletes or changes a committed ledger row: the
\* ledger before a step is a prefix of the ledger after it, and the tracking
\* table, once there, stays.
C25_AppendOnly ==
    [][/\ Len(ledger') >= Len(ledger)
       /\ SubSeq(ledger', 1, Len(ledger)) = ledger
       /\ tableExists => tableExists']_vars

\* A second call whose script failed has returned after its rollback, the two
\* rows of the first call still in the ledger.
C25_Witness ==
    /\ solo
    /\ calls[1] = 2
    /\ Returned(1)
    /\ err[1].base = "script"
    /\ Len(ledger) = 2
    /\ \A i \in 1..Len(ledger) : ledger[i].by = <<1, 1>>

\* The positions of the statements op among the statements of the call.
At(p, op) == { i \in 1..Len(Issued(p)) : Issued(p)[i].op = op }

\* C26: in every call the statements come in this order.  The lock statement
\* is the first and has succeeded before a transaction begins; there are at
\* most two transactions, and the second begins right after the first, which
\* created the table, was committed; scripts and inserts come after the
\* ledger was read in the second transaction; the unlock statement is the
\* last, issued when every transaction begun was committed or rolled back,
\* and Apply returns with no transaction open.
C26_StepOrdering ==
    \A p \in Procs :
        LET t == Issued(p)
        IN  /\ t # <<>> => t[1].op = "lock"
            /\ \A i \in At(p, "begin") : t[1].ok /\ i > 1
            /\ Cardinality(At(p, "begin")) <= 2
            /\ \A i, k \in At(p, "begin") :
                 i < k =>
                    /\ k = i + 3
                    /\ t[i].ok
                    /\ t[i + 1] = Ev("create", TRUE, NoID)
                    /\ t[i + 2] = Ev("commit", TRUE, NoID)
            /\ \A i \in At(p, "query") :
                 /\ t[i - 1] = Ev("begin", TRUE, NoID)
                 /\ Cardinality(At(p, "begin")) = 2
            /\ \A i \in At(p, "script") \cup At(p, "insert") :
                 \E q \in At(p, "query") : q < i /\ t[q].ok
            /\ \A u \in At(p, "unlock") :
                 /\ u = Len(t)
                 /\ tx[p] = 0
                 /\ \A i \in At(p, "begin") :
                      t[i].ok => \E j \in At(p, "commit") \cup At(p, "rollback") :
                                    i < j /\ j < u
            /\ Returned(p) => tx[p] = 0
            /\ tx[p] # 0 => At(p, "begin") # {} /\ At(p, "unlock") = {}

\* A call that applied two migrations has returned.
C26_Witness ==
    \E p \in Procs :
        /\ Returned(p)
        /\ Cardinality(At(p, "script")) = 2
        /\ Cardinality(At(p, "insert")) = 2
        /\ Has(p, "unlock", TRUE)
        /\ err[p] = Nil

\* The script of the migration with this ID.
ScriptOf(id) == (CHOOSE m \in MigrationValues : m.ID = id).Script

\* The rows a call has inserted so far, committed or not.
RowsOf(p) == RowsBy(CallOf(p)) \o pendRows[p]

\* C27: every insert is issued right after the script of the same migration
\* succeeded, inside the execution transaction, and every script but the
\* first right after the insert of the migration before it succeeded; each
\* row holds the ID of its migration, the MD5 of its script, an elapsed time
\* that is not negative, and as AppliedAt the reading of the clock taken
\* before the script started.
C27_RecordProtocol ==
    \A p \in Procs :
        LET t == Issued(p)
        IN  /\ \A i \in At(p, "insert") :
                 /\ t[i - 1] = Ev("script", TRUE, t[i].id)
                 /\ tx[p] # 0 \/ \E j \in At(p, "commit") \cup At(p, "rollback") : j >= i
            /\ \A i \in At(p, "script") :
                 \/ t[i - 1] = Ev("query", TRUE, NoID)
                 \/ /\ t[i - 1].op = "insert"
                    /\ t[i - 1].ok
                    /\ t[i - 1].id # t[i].id
            /\ \A k \in 1..Len(RowsOf(p)) :
                 LET r == RowsOf(p)[k]
                 IN  /\ r.id = plan[p][k].ID
                     /\ r.checksum = MD5(plan[p][k].Script)
                     /\ r.checksum = MD5(ScriptOf(r.id))
                     /\ r.elapsed >= 0
                     /\ r.appliedAt + r.elapsed <= clock
            /\ pc[p] = "insert" =>
                 /\ t[Len(t)] = Ev("script", TRUE, plan[p][idx[p]].ID)
                 /\ executionTime[p] >= 0
            /\ pendRows[p] # <<>> /\ pc[p] # "insert" =>
                 pendRows[p][Len(pendRows[p])].appliedAt = startedAt[p]

\* A call has recorded two migrations, the first of which took time, and is
\* about to commit.
C27_Witness ==
    \E p \in Procs :
        /\ pc[p] = "commit"
        /\ Len(pendRows[p]) = 2
        /\ pendRows[p][1].elapsed > 0
        /\ pendRows[p][2].appliedAt > pendRows[p][1].appliedAt

\* The caller is in runMigration: about to run a script or to insert a row.
Writing(p) == pc[p] \in {"script", "insert"}

\* C28: a caller that runs a script or inserts a ledger row has taken the
\* advisory lock, which is held (by the caller's own session when it has
\* one), has not issued its unlock, and is inside its execution transaction;
\* every script and insert it issued came after its lock statement succeeded
\* and after the execution transaction began, and none after a commit, a
\* rollback or the unlock; rows not yet committed belong to an open
\* transaction.
C28_WritesUnderLock ==
    \A p \in Procs :
        LET t == Issued(p)
        IN  /\ Writing(p) =>
                 /\ Has(p, "lock", TRUE)
                 /\ lockHolder # 0
                 /\ lockCount >= 1
                 /\ ~pooled => lockHolder = p
                 /\ At(p, "unlock") = {}
                 /\ tx[p] # 0
                 /\ sessTx[tx[p]] = p
            /\ \A i \in At(p, "script") \cup At(p, "insert") :
                 /\ t[1] = Ev("lock", TRUE, NoID)
                 /\ Cardinality({ b \in At(p, "begin") : b < i /\ t[b].ok }) = 2
                 /\ \A j \in At(p, "unlock") \cup At(p, "rollback") : j > i
                 /\ Cardinality({ c \in At(p, "commit") : c < i }) = 1
            /\ pendRows[p] # <<>> \/ pendEffects[p] # <<>> => tx[p] # 0

\* A caller with a connection of its own is about to insert its second row
\* while another caller is at its lock statement.
C28_Witness ==
    /\ ~pooled
    /\ \E p, q \in Procs :
         /\ pc[p] = "insert"
         /\ Len(pendRows[p]) = 1
         /\ pc[q] = "lock"

\* The call created the tracking table: its CREATE TABLE and the commit of it
\* succeeded.
Provisioned(p) == Has(p, "create", TRUE) /\ Has(p, "commit", TRUE)

C30_UnwindErrorsKept ==
    \A p \in Procs :
        Returned(p) =>
            \A i \in EarlierFailures(p) :
                /\ err[p].base = Cause(trace[p][i])
                /\ Has(p, "unlock", FALSE) => err[p].unlock = "unlock"
                /\ Has(p, "rollback", FALSE) => err[p].rollback = "rollback"

\* The message m.log is called with right after statement e succeeded.
MessageFor(p, e) ==
    CASE e.op = "lock" -> Locked
      [] e.op = "unlock" -> Unlocked
      [] e.op = "script" -> Applied(e.id, executionTime[p])

\* The migrations whose log message was made by the call.
LoggedIDs(p) ==
    { trace[p][i].msg[2] :
        i \in { j \in Statements(p) :
                  trace[p][j].op = "log" /\ Len(trace[p][j].msg) = 3 } }

\* C31: with a Logger set, every lock statement, script and unlock statement
\* that succeeded is followed at once by one call of the Logger, with the
\* message of that event (for a script: the migration's ID and the elapsed
\* time that goes into its ledger row); the Logger is called at no other
\* moment, so not after a failed lock, unlock or script; with a nil Logger it
\* is never called.
C31_LogEvents ==
    \A p \in Procs :
        /\ logger[p] = "nil" => Count(p, "log") = 0
        /\ \A i \in Statements(p) :
             LET e == trace[p][i]
             IN  /\ e.op = "log" =>
                      /\ logger[p] = "set"
                      /\ i > 1
                      /\ trace[p][i - 1].op \in {"lock", "script", "unlock"}
                      /\ trace[p][i - 1].ok
                      /\ e.msg[1] = MessageFor(p, trace[p][i - 1])[1]
                      /\ Len(e.msg) = 3 =>
                             /\ e.msg[2] = trace[p][i - 1].id
                             /\ e.msg[3] >= 0
                             /\ i = Len(trace[p]) => e.msg[3] = executionTime[p]
                 /\ e.op \in {"lock", "script", "unlock"} /\ e.ok /\ logger[p] = "set" =>
                      /\ i < Len(trace[p])
                      /\ trace[p][i + 1].op = "log"
                 /\ e.op \in {"lock", "script", "unlock"} /\ ~e.ok =>
                      i = Len(trace[p]) \/ trace[p][i + 1].op # "log"
        /\ \A k \in 1..Len(RowsOf(p)) :
             logger[p] = "set" =>
                \E i \in Statements(p) :
                    trace[p][i].msg = Applied(RowsOf(p)[k].id, RowsOf(p)[k].elapsed)

\* A call with a Logger has returned, having logged the lock, two migrations
\* and the unlock.
C31_Witness ==
    \E p \in Procs :
        /\ Returned(p)
        /\ logger[p] = "set"
        /\ Count(p, "log") = 4
        /\ Cardinality(LoggedIDs(p)) = 2
        /\ err[p] = Nil

\* The call had an INSERT statement or the commit of the batch fail.
WriteFailed(p) ==
    \E i \in Statements(p) :
        trace[p][i].op \in {"insert", "commit"} /\ ~trace[p][i].ok

\* C32: after a call has returned, the scripts whose effects it left in the
\* database are those of the ledger rows it left there, migration by
\* migration; when an insert or the commit of the batch failed, none of its
\* scripts' effects is in the database and its error is not nil.
C32_CommitTogether ==
    \A p \in Procs :
        Returned(p) =>
            /\ RowIDs(EffectsBy(CallOf(p))) = RowIDs(RowsBy(CallOf(p)))
            /\ WriteFailed(p) =>
                  /\ EffectsBy(CallOf(p)) = <<>>
                  /\ err[p] # Nil

\* A call has returned after two scripts and two inserts succeeded and the
\* commit failed.
C32_Witness ==
    \E p \in Procs :
        /\ Returned(p)
        /\ Count(p, "script") = 2
        /\ Count(p, "insert") = 2
        /\ Has(p, "commit", FALSE)
        /\ EffectsBy(CallOf(p)) = <<>>

\* Caller p is the only one whose lock statement has succeeded, in its first
\* call, and it has returned after its unlock statement succeeded.
ReturnedUnlocked(p) ==
    /\ Returned(p)
    /\ calls[p] = 1
    /\ Has(p, "lock", TRUE)
    /\ Has(p, "unlock", TRUE)
    /\ \A q \in Procs \ {p} : ~Has(q, "lock", TRUE)

\* C33: given a pool, a call that returns after its unlock statement
\* succeeded has released the advisory lock its lock statement took, and a
\* caller whose lock statement waits while the only other caller has returned
\* that way is given the lock.
C33_PoolReleasesLock ==
    \A p \in Procs :
        pooled /\ ReturnedUnlocked(p) =>
            /\ lockHolder = 0
            /\ \A q \in Procs \ {p} : Waiting(q) => ENABLED LockGranted(q)

\* The same of callers with a connection of their own.
C33_OwnSessionReleasesLock ==
    \A p \in Procs :
        ~pooled /\ ReturnedUnlocked(p) =>
            /\ lockHolder = 0
            /\ \A q \in Procs \ {p} : Waiting(q) => ENABLED LockGranted(q)

\* The rows of the last read whose Scan was called, and those whose Scan failed.
ScannedRows == 1..Len(Delivered(read.ids, read.scans, read.closes))

FailedScans == { i \in ScannedRows : read.scans[i] # "ok" }

\* The query of the last read returned rows, and the Scan of one failed.
ScanFailed == read.called /\ read.exists /\ ~read.broken /\ FailedScans # {}

\* C34: when the Scan of any row failed, GetAppliedMigrations returns an
\* error that is not nil, whatever the Scans after it returned, and its map
\* has no entry made from a row whose Scan failed.
C34_ScanFailuresReported ==
    ScanFailed =>
        /\ read.err # Nil
        /\ read.applied = { read.ids[i] : i \in ScannedRows \ FailedScans }

\* What the reader does do: it returns the error of the last Scan, so a
\* failure is reported when the Rows closes on it, and the keys of its map are
\* the IDs the scanned rows were left with, failed or not.
C34_LastScanReported ==
    ScanFailed =>
        /\ read.closes => read.err # Nil
        /\ read.err # Nil <=> read.scans[Len(Delivered(read.ids, read.scans, read.closes))] # "ok"
        /\ \A i \in ScannedRows \ FailedScans : read.ids[i] \in read.applied
        /\ \A i \in FailedScans : read.ids[i] \in read.applied \/ NoID \in read.applied

\* C35: the lock a Migrator has taken has as its ID the checksum of the
\* table name times the salt in 32-bit unsigned arithmetic (the low 32 bits
\* of the product), and that ID is not the lock ID of any Migrator whose
\* table name has a different checksum.
C35_NoCollisionOverChecksums ==
    \A p, q \in Procs :
        pc[p] = "locked" =>
            /\ HeldBy(p) = {Held(Sprint(SubSeq(
                   Mul(ChecksumIEEE(migrator[p].TableName) \o Word(0, 32),
                       Word(postgresAdvisoryLockSalt, 32) \o Word(0, 32)), 1, 32)), p)}
            /\ (ChecksumIEEE(migrator[p].TableName) # ChecksumIEEE(migrator[q].TableName)
                   => Held(AdvisoryLockID(migrator[q]), p) \notin advisory)

\* The first half of C35 alone: the lock ID is the low 32 bits of the product.
C35_ProductModulo ==
    \A p \in Procs :
        pc[p] = "locked" =>
            HeldBy(p) = {Held(Sprint(SubSeq(
                Mul(ChecksumIEEE(migrator[p].TableName) \o Word(0, 32),
                    Word(postgresAdvisoryLockSalt, 32) \o Word(0, 32)), 1, 32)), p)}

\* The number a word of fewer than 31 bits stands for.
RECURSIVE Value(_)
Value(a) == IF a = <<>> THEN 0 ELSE Head(a) + 2 * Value(Tail(a))

\* The four bytes of a 32-bit word as numbers, the lowest first.
Limbs(a) == [k \in 1..4 |-> Value(SubSeq(a, 8 * k - 7, 8 * k))]

\* The product of two 32-bit words as a number, by long multiplication on
\* bytes: the bytes c, c + 1, .. of the product, the lowest first, with one
\* more byte at the end for what the eight bytes cannot hold.
RECURSIVE Columns(_, _, _, _)
Columns(x, y, c, carry) ==
    IF c > 8 THEN Word(carry, 8)
    ELSE LET pairs == { i \in 1..4 : c + 1 - i \in 1..4 }
             RECURSIVE Sum(_)
             Sum(S) == IF S = {} THEN 0
                       ELSE LET i == CHOOSE j \in S : TRUE
                            IN  x[i] * y[c + 1 - i] + Sum(S \ {i})
             t == carry + Sum(pairs)
         IN  Word(t % 256, 8) \o Columns(x, y, c + 1, t \div 256)

Product(a, b) == Columns(Limbs(a), Limbs(b), 1, 0)

\* 2254546236185297208, the value TestLockIdentifierForTable expects for the
\* default table name, in decimal digits.
ExpectedDefault == <<2, 2, 5, 4, 5, 4, 6, 2, 3, 6, 1, 8, 5, 2, 9, 7, 2, 0, 8>>

\* C36: LockIdentifierForTable returns the product of the checksum and the
\* salt exactly: its 64 bits are the product's, the product needs no bit
\* beyond them and not the sign bit either, so the value is not negative; its
\* low 32 bits are the number AdvisoryLockID prints.  The same holds of the
\* largest checksum, and the default table name gives the value of the test.
C36_ExactProduct ==
    quoted.fn = "LockIdentifierForTable" =>
        LET sum == ChecksumIEEE(migrator[1].TableName)
            salt == Word(postgresAdvisoryLockSalt, 32)
            max == Not(Word(0, 32))
        IN  /\ quoted.out \o Word(0, 8) = Product(sum, salt)
            /\ quoted.out[64] = 0
            /\ Sprint(SubSeq(quoted.out, 1, 32)) = AdvisoryLockID(migrator[1])
            /\ Mul(Int64(max), Int64(salt)) \o Word(0, 8) = Product(max, salt)
            /\ Mul(Int64(max), Int64(salt))[64] = 0
            /\ Sprint(LockIdentifierForTable(DefaultTableName)) = ExpectedDefault

\* LockIdentifierForTable has returned a product that does not fit in 32 bits.
C36_Witness ==
    /\ quoted.fn = "LockIdentifierForTable"
    /\ ~IsZero(SubSeq(quoted.out, 33, 64))
    /\ migrator[1].TableName # <<>>

\* How many entries of a sequence of migrations or rows have the ID.
WithID(ids, id) == Cardinality({ i \in 1..Len(ids) : ids[i] = id })

SuppliedIDs(p) == [i \in 1..Len(migrations[p]) |-> migrations[p][i].ID]

\* The IDs the call was given more than once and the ledger map did not hold.
Repeated(p) ==
    { id \in InputIDs(p) \ applied[p] : WithID(SuppliedIDs(p), id) >= 2 }

\* C37: entries of the slice with the same ID, the ID not being in the
\* ledger, are all in the plan, each as often as it was supplied; when the
\* call has returned without error, the script of every one of them was
\* executed in that call and the ledger has a row of the call for each.
C37_DuplicatesAllApplied ==
    \A p \in Procs :
        Planned(p) =>
            \A id \in Repeated(p) :
                /\ \A j \in 1..Len(migrations[p]) :
                     migrations[p][j].ID = id =>
                         Occurrences(plan[p], migrations[p][j])
                             = Occurrences(migrations[p], migrations[p][j])
                /\ WithID(PlanIDs(p), id) = WithID(SuppliedIDs(p), id)
                /\ Returned(p) /\ err[p] = Nil =>
                     /\ WithID(Executed(p), id) = WithID(SuppliedIDs(p), id)
                     /\ WithID(RowIDs(RowsBy(CallOf(p))), id) = WithID(SuppliedIDs(p), id)
                     /\ { r.checksum : r \in { RowsBy(CallOf(p))[k] :
                                                 k \in { n \in 1..Len(RowsBy(CallOf(p))) :
                                                           RowsBy(CallOf(p))[n].id = id } } }
                          = { MD5(migrations[p][j].Script) :
                                j \in { n \in 1..Len(migrations[p]) : migrations[p][n].ID = id } }

\* A call given two entries with the ID <<1>> and different scripts has
\* returned without error: both scripts were executed and the ledger has two
\* rows with that ID.
C37_Witness ==
    \E p \in Procs :
        /\ Returned(p)
        /\ err[p] = Nil
        /\ \E i, j \in 1..Len(migrations[p]) :
             /\ migrations[p][i].ID = <<1>>
             /\ migrations[p][j].ID = <<1>>
             /\ migrations[p][i].Script # migrations[p][j].Script
        /\ WithID(Executed(p), <<1>>) = 2
        /\ Cardinality(LedgerRowsOf(<<1>>)) = 2

\* The migrations supplied to the call whose ID is not in the ledger map it
\* read and sorts before an ID that is.
LateArrivals(p) ==
    { migrations[p][j] :
        j \in { n \in 1..Len(migrations[p]) :
                  /\ migrations[p][n].ID \notin applied[p]
                  /\ \E a \in applied[p] : BytewiseLess(migrations[p][n].ID, a) } }

\* C38: a migration supplied to a call whose ID is not in the ledger, though
\* it sorts before an ID that is, is in the plan of the call; when the call
\* has returned without error its script was executed, and its row stands in
\* the ledger after the row of a migration with a greater ID: over several
\* calls the order of execution is not the order of the IDs.
C38_LateArrivalsApplied ==
    \A p \in Procs :
        Planned(p) =>
            \A m \in LateArrivals(p) :
                /\ Occurrences(plan[p], m) >= 1
                /\ Returned(p) /\ err[p] = Nil =>
                     /\ WithID(Executed(p), m.ID) >= 1
                     /\ \E k \in 1..Len(ledger) :
                          /\ ledger[k].id = m.ID
                          /\ ledger[k].by = CallOf(p)
                          /\ \E n \in 1..(k - 1) : BytewiseLess(m.ID, ledger[n].id)

\* The second call of a lone caller has applied the migration <<1>> after
\* the first applied <<1, 3>> and <<2>>.
C38_Witness ==
    /\ Returned(1)
    /\ calls[1] = 2
    /\ err[1] = Nil
    /\ RowIDs(ledger) = << <<1, 3>>, <<2>>, <<1>> >>
    /\ Executed(1) = << <<1>> >>

\* The commit of the execution transaction failed: every script and every
\* insert of the call had succeeded.
BatchCommitFailed(p) ==
    /\ Planned(p)
    /\ Has(p, "commit", FALSE)

\* C39: when the commit of the execution transaction failed, the call goes
\* on to the unlock statement and leaves no row and no script effect of its
\* own in the database; when Apply returns, it returns the commit error, and
\* the unlock statement was its last statement (having freed the lock, when it
\* succeeded on the caller's own session).
C39_CommitFailure ==
    \A p \in Procs :
        BatchCommitFailed(p) =>
            /\ pc[p] \in {"unlock", "done", "panicked"}
            /\ \A i \in Statements(p) :
                 trace[p][i].op \in {"script", "insert"} => trace[p][i].ok
            /\ RowsBy(CallOf(p)) = <<>>
            /\ EffectsBy(CallOf(p)) = <<>>
            /\ err[p].base = "commit"
            /\ (Returned(p) =>
                   /\ err[p] # Nil
                   /\ Count(p, "unlock") = 1
                   /\ Issued(p)[Len(Issued(p))].op = "unlock"
                   /\ (~pooled /\ calls[p] = 1 /\ Has(p, "unlock", TRUE) =>
                          /\ err[p] = CommitFailed
                          /\ lockHolder # p))

\* A call whose three scripts and inserts succeeded and whose commit failed
\* has returned the commit error, its lock released.
C39_Witness ==
    \E p \in Procs :
        /\ Returned(p)
        /\ BatchCommitFailed(p)
        /\ Count(p, "insert") = 3
        /\ err[p] = DBError("commit")
        /\ Has(p, "unlock", TRUE)
        /\ lockHolder = 0

====
